---- MODULE Spec2Model ----
(***************************************************************************)
(* Port allocation registry of the worktree scripts:                       *)
(*   scripts/worktree/allocate-ports.py, deallocate-ports.py, list.py.     *)
(*                                                                         *)
(* The registry file port-allocations.json is a sequence of tokens (what   *)
(* json.dumps writes and json.loads parses); the worktrees directory is a  *)
(* map from directories to what they hold; the port probe reads the set of *)
(* ports some other process has bound.                                     *)
(*                                                                         *)
(* Spec     one invocation at a time, port search in full detail.          *)
(* SpecRec  one invocation at a time, worktree directories in full detail. *)
(* SpecConc invocations interleaved at their file-system calls.            *)
(* SpecConcLive  the same with every worktree live and no deallocate.      *)
(* SpecRT   save_allocations and load_allocations on arbitrary registries. *)
(***************************************************************************)
EXTENDS Integers, Sequences, FiniteSets, TLC

\* ------------------------------------------------------------------ bounds
\* allocate-ports.py:14
PORT_RANGE_START == 50000
\* Width of the allocatable range in the model (60000 - 50000 in the source).
RangeLen == 7
\* allocate-ports.py:15, scaled: PORT_RANGE_END - PORT_RANGE_START = RangeLen.
PORT_RANGE_END == PORT_RANGE_START + RangeLen
\* Largest number of ports held by foreign processes at one time.
MaxBusy == 1

Ports == PORT_RANGE_START .. (PORT_RANGE_END - 1)

\* Allocation keys (sys.argv[2]); "p/a" is a project/worktree key.
Keys == {"a", "b", "p/a"}
\* Keys that contain "/" (list.py:35).
SlashKeys == {"p/a"}
\* Directories under WORKTREES_DIR; "x" is a custom (relocated) directory.
Dirs == Keys \cup {"x"}
NoKey == "-"
NoDir == "-"
\* <count> and <worktree_name> arguments tried in Spec.
Counts == {-1, 0, 2, 3, 5}
SpecKeys == {"a", "b"}
\* <count> arguments tried in SpecRec (with every key of Keys) and SpecConc.
RecCounts == {1}
ConcCounts == {2}
\* Keys the invocations of SpecConc are given.
ConcKeys == {"a", "b"}
\* Invocations that may be in flight at once in SpecConc.
Procs == {1, 2}
\* Longest port list of a registry handed to save_allocations in SpecRT.
MaxList == 2
\* Ports such a list is made of, and the keys of such a registry.
ListPorts == {PORT_RANGE_START, PORT_RANGE_START + 1}
ListKeys == {"b", "p/a"}

VARIABLES
  file,   \* ALLOCATIONS_FILE: [exists, text]
  fs,     \* WORKTREES_DIR: directory -> [kind, key]
  busy,   \* ports bound by foreign processes (what is_port_free observes)
  out,    \* outcome of the last invocation that ran to its end
  inv     \* SpecConc: the invocations in flight, process -> [pc, op, ...]

vars == <<file, fs, busy, out, inv>>

\* ------------------------------------------------------- registry file I/O
LB == <<"{">>
RB == <<"}">>
KV(k, ports) == <<"kv", k, ports>>

EmptyDict == [k \in {} |-> <<>>]

KeyOrder == <<"a", "b", "p/a">>

RECURSIVE DumpItems(_, _)
DumpItems(d, i) ==
  IF i > Len(KeyOrder) THEN <<>>
  ELSE (IF KeyOrder[i] \in DOMAIN d
          THEN <<KV(KeyOrder[i], d[KeyOrder[i]])>> ELSE <<>>)
       \o DumpItems(d, i + 1)

\* Variant: members whose port list is empty are not written.
DumpsSkipsEmpty(d) ==
  <<LB>> \o DumpItems([k \in {n \in DOMAIN d : d[n] # <<>>} |-> d[k]], 1)
         \o <<RB>>

\* json.dumps(allocations, indent=2): an object, one member per key.
Dumps(d) == <<LB>> \o DumpItems(d, 1) \o <<RB>>

\* Is the text one JSON object?
WellFormed(text) ==
  /\ Len(text) >= 2
  /\ text[1] = LB
  /\ text[Len(text)] = RB
  /\ \A i \in 2 .. (Len(text) - 1) : text[i][1] = "kv"

\* json.loads of a well-formed text; of a repeated member the last one wins.
Loads(text) ==
  LET idx == 2 .. (Len(text) - 1)
      ks  == {text[i][2] : i \in idx}
      last(k) == CHOOSE i \in idx :
                   /\ text[i][2] = k
                   /\ \A j \in idx : text[j][2] = k => j <= i
  IN [k \in ks |-> text[last(k)][3]]

NoFile == [exists |-> FALSE, text |-> <<>>]

\* Can load_allocations return (no JSONDecodeError)?
Loadable(f) == ~f.exists \/ WellFormed(f.text)

load_allocations(f) == IF f.exists THEN Loads(f.text) ELSE EmptyDict

save_allocations(allocations) == [exists |-> TRUE, text |-> Dumps(allocations)]

\* The registry as a reader would load it now.
Registry == load_allocations(file)

Remove(d, ks) == [k \in (DOMAIN d) \ ks |-> d[k]]
Put(d, key, v) == [k \in (DOMAIN d) \cup {key} |-> IF k = key THEN v ELSE d[k]]
PortSet(ports) == {ports[i] : i \in 1 .. Len(ports)}

\* --------------------------------------------------- worktree directories
Absent == [kind |-> "absent", key |-> NoKey]
NoRec == [kind |-> "norec", key |-> NoKey]
Corrupt == [kind |-> "corrupt", key |-> NoKey]
Rec(k) == [kind |-> "rec", key |-> k]

DirExists(f, d) == f[d].kind # "absent"
StateFileExists(f, d) == f[d].kind \in {"corrupt", "rec"}

\* ------------------------------------------------------------ reconcilers
\* Variant: only the directory is looked at, not its state.json.
StaleNamesDirOnly(allocations, f) ==
  {name \in DOMAIN allocations : ~DirExists(f, name)}

\* allocate-ports.py:44-49: names whose directory or state.json is missing.
StaleNames(allocations, f) ==
  {name \in DOMAIN allocations :
     ~DirExists(f, name) \/ ~StateFileExists(f, name)}

\* Variant: the stale names are dropped from the dict but never saved.
cleanup_stale_allocationsNoSave(allocations, f, fl) ==
  LET stale == StaleNames(allocations, f)
  IN [allocations |-> Remove(allocations, stale), stale |-> stale,
      file |-> fl, saves |-> 0]

\* allocate-ports.py:41-58. Returns the dict, the file and the saves made.
cleanup_stale_allocations(allocations, f, fl) ==
  LET stale == StaleNames(allocations, f)
      kept  == Remove(allocations, stale)
  IN [allocations |-> kept, stale |-> stale,
      file  |-> IF stale # {} THEN save_allocations(kept) ELSE fl,
      saves |-> IF stale # {} THEN 1 ELSE 0]

\* list.py:47-53: directories whose state.json parses and stores the key.
ScanMatches(allocation_key, f) ==
  {d \in Dirs : f[d].kind = "rec" /\ f[d].key = allocation_key}

\* list.py:27-55. WORKTREES_DIR / project / name and WORKTREES_DIR / key are
\* the same directory; rglob's order does not matter to the callers, which
\* only ask whether the directory found holds a state.json.
find_worktree_dir(allocation_key, f) ==
  IF allocation_key \in SlashKeys /\ DirExists(f, allocation_key)
    THEN allocation_key
  ELSE IF DirExists(f, allocation_key) THEN allocation_key
  ELSE IF ScanMatches(allocation_key, f) # {}
    THEN CHOOSE d \in ScanMatches(allocation_key, f) : TRUE
  ELSE NoDir

\* list.py:61-68
ListStaleKeys(allocations, f) ==
  {key \in DOMAIN allocations :
     LET worktree_dir == find_worktree_dir(key, f)
     IN \/ worktree_dir = NoDir
        \/ ~StateFileExists(f, worktree_dir)}

\* list.py:58-77
list_cleanup_stale_allocations(allocations, f, fl) ==
  LET stale == ListStaleKeys(allocations, f)
      kept  == Remove(allocations, stale)
  IN [allocations |-> kept, stale |-> stale,
      file  |-> IF stale # {} THEN save_allocations(kept) ELSE fl,
      saves |-> IF stale # {} THEN 1 ELSE 0]

\* ------------------------------------------------------------- port search
\* Variant: the probe reports every port free.
is_port_freeAlways(port, b) == TRUE

\* allocate-ports.py:18-25
is_port_free(port, b) == port \notin b

\* list(range(start, start + count)): empty when count <= 0.
Block(start, count) == [i \in 1 .. count |-> start + i - 1]

\* Variant: the search forgets the ports already committed.
AllocatedPortsNone(existing_allocations) == {}

\* allocate-ports.py:63-65
AllocatedPorts(existing_allocations) ==
  UNION {PortSet(existing_allocations[k]) : k \in DOMAIN existing_allocations}

NotFound == [found |-> FALSE, ports |-> <<>>]

\* allocate-ports.py:67-76: for start in range(PORT_RANGE_START,
\* PORT_RANGE_END - count), ascending; NotFound is the RuntimeError.
RECURSIVE ScanFrom(_, _, _, _)
ScanFrom(start, count, allocated, b) ==
  IF start >= PORT_RANGE_END - count THEN NotFound
  ELSE LET candidate_ports == Block(start, count)
       IN IF \E p \in PortSet(candidate_ports) : p \in allocated
            THEN ScanFrom(start + 1, count, allocated, b)
          ELSE IF \A p \in PortSet(candidate_ports) : is_port_free(p, b)
            THEN [found |-> TRUE, ports |-> candidate_ports]
          ELSE ScanFrom(start + 1, count, allocated, b)

\* allocate-ports.py:61-76
find_free_ports(count, existing_allocations, b) ==
  ScanFrom(PORT_RANGE_START, count, AllocatedPorts(existing_allocations), b)

\* ------------------------------------------------------------ invocations
\* What an invocation leaves behind: stdout (ports, existing), stderr
\* (status, cleaned: the "Cleaning up stale allocation" lines), the exit
\* status and the number of save_allocations calls it made.
NoOut == [op |-> "none", key |-> NoKey, count |-> 0, status |-> "none",
          ports |-> <<>>, existing |-> FALSE, cleaned |-> {}, saves |-> 0,
          exit |-> 0]

\* Variant: the entry already present is never recognised.
AlreadyAllocatedNever(worktree_name, allocations) == FALSE

\* allocate-ports.py:91
AlreadyAllocated(worktree_name, allocations) ==
  worktree_name \in DOMAIN allocations

\* allocate-ports.py:79-101, run from start to end with nothing in between.
Allocate(count, worktree_name) ==
  LET c == cleanup_stale_allocations(load_allocations(file), fs, file)
      allocations == c.allocations
      r == find_free_ports(count, allocations, busy)
  IN /\ Loadable(file)
     /\ IF AlreadyAllocated(worktree_name, allocations)
          THEN /\ file' = c.file
               /\ out' = [op |-> "allocate", key |-> worktree_name,
                          count |-> count, status |-> "ok",
                          ports |-> allocations[worktree_name],
                          existing |-> TRUE, cleaned |-> c.stale,
                          saves |-> c.saves, exit |-> 0]
        ELSE IF ~r.found
          THEN /\ file' = c.file
               /\ out' = [op |-> "allocate", key |-> worktree_name,
                          count |-> count, status |-> "capacity",
                          ports |-> <<>>, existing |-> FALSE,
                          cleaned |-> c.stale, saves |-> c.saves, exit |-> 1]
        ELSE /\ file' = save_allocations(Put(allocations, worktree_name, r.ports))
             /\ out' = [op |-> "allocate", key |-> worktree_name,
                        count |-> count, status |-> "ok", ports |-> r.ports,
                        existing |-> FALSE, cleaned |-> c.stale,
                        saves |-> c.saves + 1, exit |-> 0]
     /\ UNCHANGED <<fs, busy, inv>>

\* Variant: the registry is saved although nothing was removed.
DeallocateAlwaysSaves(worktree_name) ==
  LET allocations == load_allocations(file)
  IN /\ Loadable(file)
     /\ file' = save_allocations(Remove(allocations, {worktree_name}))
     /\ out' = [op |-> "deallocate", key |-> worktree_name, count |-> 0,
                status |-> IF worktree_name \in DOMAIN allocations
                             THEN "ok" ELSE "notfound",
                ports |-> IF worktree_name \in DOMAIN allocations
                            THEN allocations[worktree_name] ELSE <<>>,
                existing |-> FALSE, cleaned |-> {}, saves |-> 1, exit |-> 0]
     /\ UNCHANGED <<fs, busy, inv>>

\* Variant: deallocate reconciles the registry before it removes the key.
DeallocateReconciles(worktree_name) ==
  LET c == cleanup_stale_allocations(load_allocations(file), fs, file)
      allocations == c.allocations
  IN /\ Loadable(file)
     /\ IF worktree_name \notin DOMAIN load_allocations(file)
          THEN /\ file' = file
               /\ out' = [op |-> "deallocate", key |-> worktree_name,
                          count |-> 0, status |-> "notfound", ports |-> <<>>,
                          existing |-> FALSE, cleaned |-> {}, saves |-> 0,
                          exit |-> 0]
        ELSE /\ file' = save_allocations(Remove(allocations, {worktree_name}))
             /\ out' = [op |-> "deallocate", key |-> worktree_name,
                        count |-> 0, status |-> "ok",
                        ports |-> load_allocations(file)[worktree_name],
                        existing |-> FALSE, cleaned |-> {}, saves |-> 1,
                        exit |-> 0]
     /\ UNCHANGED <<fs, busy, inv>>

\* deallocate-ports.py:26-43
Deallocate(worktree_name) ==
  LET allocations == load_allocations(file)
  IN /\ Loadable(file)
     /\ IF worktree_name \notin DOMAIN allocations
          THEN /\ file' = file
               /\ out' = [op |-> "deallocate", key |-> worktree_name,
                          count |-> 0, status |-> "notfound", ports |-> <<>>,
                          existing |-> FALSE, cleaned |-> {}, saves |-> 0,
                          exit |-> 0]
        ELSE /\ file' = save_allocations(Remove(allocations, {worktree_name}))
             /\ out' = [op |-> "deallocate", key |-> worktree_name,
                        count |-> 0, status |-> "ok",
                        ports |-> allocations[worktree_name],
                        existing |-> FALSE, cleaned |-> {}, saves |-> 1,
                        exit |-> 0]
     /\ UNCHANGED <<fs, busy, inv>>

\* list.py:103-105 (the report that follows changes nothing)
List ==
  LET c == list_cleanup_stale_allocations(load_allocations(file), fs, file)
  IN /\ Loadable(file)
     /\ file' = c.file
     /\ out' = [op |-> "list", key |-> NoKey, count |-> 0, status |-> "ok",
                ports |-> <<>>, existing |-> FALSE, cleaned |-> c.stale,
                saves |-> c.saves, exit |-> 0]
     /\ UNCHANGED <<fs, busy, inv>>

\* ------------------------------------------------------------- environment
\* The worktree tooling writes WORKTREES_DIR/<key>/state.json.
WriteState(k) ==
  /\ fs[k] # Rec(k)
  /\ fs' = [fs EXCEPT ![k] = Rec(k)]
  /\ out' = NoOut
  /\ UNCHANGED <<file, busy, inv>>

\* The worktree directory is removed with all it holds.
RemoveDir(d) ==
  /\ DirExists(fs, d)
  /\ fs' = [fs EXCEPT ![d] = Absent]
  /\ out' = NoOut
  /\ UNCHANGED <<file, busy, inv>>

\* A worktree kept in a custom directory records its allocation key.
Relocate(k) ==
  /\ fs["x"] # Rec(k)
  /\ fs' = [fs EXCEPT !["x"] = Rec(k)]
  /\ out' = NoOut
  /\ UNCHANGED <<file, busy, inv>>

\* state.json is deleted, the directory stays.
DeleteState(d) ==
  /\ StateFileExists(fs, d)
  /\ fs' = [fs EXCEPT ![d] = NoRec]
  /\ out' = NoOut
  /\ UNCHANGED <<file, busy, inv>>

\* state.json is overwritten with text that is not JSON.
CorruptState(d) ==
  /\ fs[d].kind = "rec"
  /\ fs' = [fs EXCEPT ![d] = Corrupt]
  /\ out' = NoOut
  /\ UNCHANGED <<file, busy, inv>>

\* Some other process binds a port of the range.
BindPort(p) ==
  /\ p \notin busy
  /\ Cardinality(busy) < MaxBusy
  /\ busy' = busy \cup {p}
  /\ out' = NoOut
  /\ UNCHANGED <<file, fs, inv>>

ReleasePort(p) ==
  /\ p \in busy
  /\ busy' = busy \ {p}
  /\ out' = NoOut
  /\ UNCHANGED <<file, fs, inv>>

\* ------------------------------------------- invocations, step by step
\* An invocation is a process of its own; its steps are its calls into the
\* file system: reading the registry, looking at the worktree directories,
\* probing the ports, and the two halves of Path.write_text (open for
\* writing, which truncates, and the write of the text).
Idle == [pc |-> "idle", op |-> "none", key |-> NoKey, count |-> 0,
         allocations |-> EmptyDict, ports |-> <<>>, existing |-> FALSE,
         status |-> "none", after |-> "none", peers |-> {}]

InFlight == {q \in Procs : inv[q].pc \notin {"idle", "done", "crashed"}}

\* A process starts allocate <count> <key>, deallocate <key> or list.
Start(p, op, key, count) ==
  /\ inv[p].pc = "idle"
  /\ inv' = [q \in Procs |->
              IF q = p
                THEN [Idle EXCEPT !.pc = "load", !.op = op, !.key = key,
                                  !.count = count, !.peers = InFlight]
              ELSE IF q \in InFlight
                THEN [inv[q] EXCEPT !.peers = @ \cup {p}]
              ELSE inv[q]]
  /\ UNCHANGED <<file, fs, busy, out>>

\* load_allocations (allocate-ports.py:28-32, deallocate-ports.py:13-17,
\* list.py:14-18); json.loads raises on a text that is not an object.
Load(p) ==
  /\ inv[p].pc = "load"
  /\ inv' = [inv EXCEPT ![p] =
       IF ~Loadable(file)
         THEN [@ EXCEPT !.pc = "crashed", !.status = "decode-error"]
       ELSE [@ EXCEPT !.allocations = load_allocations(file),
                      !.pc = IF inv[p].op = "deallocate"
                               THEN "remove" ELSE "cleanup"]]
  /\ UNCHANGED <<file, fs, busy, out>>

\* cleanup_stale_allocations up to its save (allocate-ports.py:43-55,
\* list.py:60-74).
Cleanup(p) ==
  /\ inv[p].pc = "cleanup"
  /\ LET stale == IF inv[p].op = "list"
                    THEN ListStaleKeys(inv[p].allocations, fs)
                    ELSE StaleNames(inv[p].allocations, fs)
         next  == IF inv[p].op = "list" THEN "done" ELSE "search"
     IN inv' = [inv EXCEPT ![p] =
          [@ EXCEPT !.allocations = Remove(inv[p].allocations, stale),
                    !.status = IF inv[p].op = "list" THEN "ok" ELSE @,
                    !.after = next,
                    !.pc = IF stale # {} THEN "trunc" ELSE next]]
  /\ UNCHANGED <<file, fs, busy, out>>

\* write_text, first half: open(..., "w") creates or truncates the file.
Truncate(p) ==
  /\ inv[p].pc = "trunc"
  /\ file' = [exists |-> TRUE, text |-> <<>>]
  /\ inv' = [inv EXCEPT ![p].pc = "write"]
  /\ UNCHANGED <<fs, busy, out>>

\* Writing new at offset 0 of a file that holds cur.
Overlay(cur, new) == new \o SubSeq(cur, Len(new) + 1, Len(cur))

\* write_text, second half: the text is written from offset 0.
Write(p) ==
  /\ inv[p].pc = "write"
  /\ file' = [exists |-> TRUE,
              text |-> Overlay(file.text, Dumps(inv[p].allocations))]
  /\ inv' = [inv EXCEPT ![p].pc = inv[p].after]
  /\ UNCHANGED <<fs, busy, out>>

\* allocate-ports.py:91-98: the entry already there, or the port search.
Search(p) ==
  /\ inv[p].pc = "search"
  /\ LET me == inv[p]
         r  == find_free_ports(me.count, me.allocations, busy)
     IN inv' = [inv EXCEPT ![p] =
          IF AlreadyAllocated(me.key, me.allocations)
            THEN [@ EXCEPT !.ports = me.allocations[me.key],
                           !.existing = TRUE, !.status = "ok", !.pc = "done"]
          ELSE IF ~r.found
            THEN [@ EXCEPT !.status = "capacity", !.pc = "done"]
          ELSE [@ EXCEPT !.ports = r.ports,
                         !.allocations = Put(me.allocations, me.key, r.ports),
                         !.status = "ok", !.after = "done", !.pc = "trunc"]]
  /\ UNCHANGED <<file, fs, busy, out>>

\* deallocate-ports.py:35-40
RemoveEntry(p) ==
  /\ inv[p].pc = "remove"
  /\ LET me == inv[p]
     IN inv' = [inv EXCEPT ![p] =
          IF me.key \notin DOMAIN me.allocations
            THEN [@ EXCEPT !.status = "notfound", !.pc = "done"]
          ELSE [@ EXCEPT !.ports = me.allocations[me.key],
                         !.allocations = Remove(me.allocations, {me.key}),
                         !.status = "ok", !.after = "done", !.pc = "trunc"]]
  /\ UNCHANGED <<file, fs, busy, out>>

\* The process has exited; its slot is free for the next invocation.
Return(p) ==
  /\ inv[p].pc \in {"done", "crashed"}
  /\ inv' = [inv EXCEPT ![p] = Idle]
  /\ UNCHANGED <<file, fs, busy, out>>

\* --------------------------------------------------------- specifications

Init ==
  /\ file = NoFile
  /\ fs = [d \in Dirs |-> Absent]
  /\ busy = {}
  /\ out = NoOut
  /\ inv = [p \in Procs |-> Idle]

Next ==
  \/ \E count \in Counts, k \in SpecKeys : Allocate(count, k)
  \/ \E k \in SpecKeys : Deallocate(k)
  \/ List
  \/ \E k \in SpecKeys : WriteState(k)
  \/ \E k \in SpecKeys : RemoveDir(k)
  \/ \E p \in Ports : BindPort(p)
  \/ \E p \in Ports : ReleasePort(p)

Spec == Init /\ [][Next]_vars

NextRec ==
  \/ \E count \in RecCounts, k \in Keys : Allocate(count, k)
  \/ \E k \in Keys : Deallocate(k)
  \/ List
  \/ \E k \in Keys : WriteState(k)
  \/ \E d \in Dirs : RemoveDir(d)
  \/ \E k \in Keys : Relocate(k)
  \/ \E d \in Dirs : DeleteState(d)
  \/ \E d \in Dirs : CorruptState(d)

SpecRec == Init /\ [][NextRec]_vars

NextConc ==
  \/ \E p \in Procs, count \in ConcCounts, k \in ConcKeys :
       Start(p, "allocate", k, count)
  \/ \E p \in Procs, k \in ConcKeys : Start(p, "deallocate", k, 0)
  \/ \E p \in Procs : Start(p, "list", NoKey, 0)
  \/ \E p \in Procs : Load(p)
  \/ \E p \in Procs : Cleanup(p)
  \/ \E p \in Procs : Truncate(p)
  \/ \E p \in Procs : Write(p)
  \/ \E p \in Procs : Search(p)
  \/ \E p \in Procs : RemoveEntry(p)
  \/ \E p \in Procs : Return(p)
  \/ \E k \in ConcKeys : WriteState(k)
  \/ \E k \in ConcKeys : RemoveDir(k)

SpecConc == Init /\ [][NextConc]_vars

\* Every key's worktree exists with its state record and stays: no name is
\* ever stale. Only allocate and list are invoked, nothing is deallocated.
InitLive ==
  /\ file = NoFile
  /\ fs = [d \in Dirs |-> IF d \in Keys THEN Rec(d) ELSE Absent]
  /\ busy = {}
  /\ out = NoOut
  /\ inv = [p \in Procs |-> Idle]

NextConcLive ==
  \/ \E p \in Procs, count \in ConcCounts, k \in ConcKeys :
       Start(p, "allocate", k, count)
  \/ \E p \in Procs : Start(p, "list", NoKey, 0)
  \/ \E p \in Procs : Load(p)
  \/ \E p \in Procs : Cleanup(p)
  \/ \E p \in Procs : Truncate(p)
  \/ \E p \in Procs : Write(p)
  \/ \E p \in Procs : Search(p)
  \/ \E p \in Procs : Return(p)

SpecConcLive == InitLive /\ [][NextConcLive]_vars

\* ------------------------------------------- save and load on their own
\* Lists of integer ports, and the dicts of string keys to such lists.
PortLists == UNION {[1 .. n -> ListPorts] : n \in 0 .. MaxList}
ValidRegistries == UNION {[S -> PortLists] : S \in SUBSET ListKeys}

\* save_allocations(r), by process 1; what process 2 had loaded is dropped.
SaveRegistry(r) ==
  /\ file' = save_allocations(r)
  /\ inv' = [inv EXCEPT ![1] = [Idle EXCEPT !.allocations = r],
                        ![2] = Idle]
  /\ out' = [NoOut EXCEPT !.op = "save"]
  /\ UNCHANGED <<fs, busy>>

\* load_allocations(), by process 2.
LoadRegistry ==
  /\ Loadable(file)
  /\ inv' = [inv EXCEPT ![2] = [Idle EXCEPT
                                  !.allocations = load_allocations(file),
                                  !.pc = "done"]]
  /\ out' = [NoOut EXCEPT !.op = "load"]
  /\ UNCHANGED <<file, fs, busy>>

\* save_allocations(load_allocations()).
SaveLoaded ==
  /\ Loadable(file)
  /\ file' = save_allocations(load_allocations(file))
  /\ out' = [NoOut EXCEPT !.op = "resave"]
  /\ UNCHANGED <<fs, busy, inv>>

\* port-allocations.json is removed by hand.
DeleteRegistry ==
  /\ file.exists
  /\ file' = NoFile
  /\ inv' = [p \in Procs |-> Idle]
  /\ out' = [NoOut EXCEPT !.op = "delete"]
  /\ UNCHANGED <<fs, busy>>

NextRT ==
  \/ \E r \in ValidRegistries : SaveRegistry(r)
  \/ LoadRegistry
  \/ SaveLoaded
  \/ DeleteRegistry

SpecRT == Init /\ [][NextRT]_vars

\* ------------------------------------------------------------------ claims
Disjoint(d) ==
  \A k1, k2 \in DOMAIN d :
    k1 # k2 => PortSet(d[k1]) \cap PortSet(d[k2]) = {}

\* The step just taken was an invocation of op (the environment resets out).
Ran(op) == out'.op = op

\* The registry as allocate's reconciler leaves it: the names whose
\* WORKTREES_DIR/<name>/state.json exists.
LiveForAllocate(k) == fs[k].kind \in {"rec", "corrupt"}
Reconciled ==
  [k \in {n \in DOMAIN Registry : LiveForAllocate(n)} |-> Registry[k]]
Reserved == UNION {PortSet(Reconciled[k]) : k \in DOMAIN Reconciled}

\* A block of count ports from s that is unreserved and probe-free.
FreeBlockAt(s, count) ==
  \A i \in 0 .. (count - 1) : (s + i) \notin Reserved /\ (s + i) \notin busy

\* C1: with one invocation at a time, the port sets of every two distinct
\* keys of the registry are disjoint in every reachable state.
C1_NoOverlap == Disjoint(Registry)

C1_Witness ==
  \E k1, k2 \in DOMAIN Registry :
    /\ k1 # k2
    /\ Registry[k1] # <<>>
    /\ Registry[k2] # <<>>
    /\ out.op = "allocate"

\* Two invocations ran at the same time: one started while the other was in
\* flight.
Concurrent(p, q) == q \in inv[p].peers \/ p \in inv[q].peers

Granted(p) ==
  /\ inv[p].pc = "done"
  /\ inv[p].op = "allocate"
  /\ inv[p].status = "ok"

\* C2: when allocate invocations for distinct keys that ran concurrently
\* have all finished, the registry has pairwise disjoint port sets and the
\* blocks granted to them share no port.
C2_ConcurrentDisjoint ==
  \A p, q \in Procs :
    (p # q /\ Granted(p) /\ Granted(q) /\ inv[p].key # inv[q].key
       /\ Concurrent(p, q))
      => /\ Loadable(file)
         /\ Disjoint(Registry)
         /\ PortSet(inv[p].ports) \cap PortSet(inv[q].ports) = {}

\* C3 as claimed: an allocate for a key that was granted a block (of one port
\* or more) and is still in the registry (nothing deallocated it) returns
\* that block with existing = true and leaves the entry unchanged.
C3_Original ==
  [][(Ran("allocate") /\ out'.count > 0 /\ out'.key \in DOMAIN Registry
        /\ Registry[out'.key] # <<>>)
       => /\ out'.existing
          /\ out'.ports = Registry[out'.key]
          /\ out'.key \in DOMAIN Registry'
          /\ Registry'[out'.key] = Registry[out'.key]]_vars

\* C3 amended: an allocate for a key that is in the registry and whose
\* WORKTREES_DIR/<key>/state.json exists returns the stored block, whatever
\* the count, with existing = true, and leaves the entry unchanged.
C3_IdempotentWhenLive ==
  [][(Ran("allocate") /\ out'.key \in DOMAIN Registry
        /\ LiveForAllocate(out'.key))
       => /\ out'.existing
          /\ out'.status = "ok"
          /\ out'.ports = Registry[out'.key]
          /\ out'.key \in DOMAIN Registry'
          /\ Registry'[out'.key] = Registry[out'.key]]_vars

C3_Witness ==
  /\ out.op = "allocate"
  /\ out.existing
  /\ out.count = 5
  /\ Len(out.ports) = 3
  /\ Registry[out.key] = out.ports

\* C4: a fresh grant is the block at the smallest start of the range whose
\* ports are all unreserved (in the reconciled registry) and probe-free; with
\* nothing reserved and nothing bound, allocate(5, k) returns
\* [50000 .. 50004].
C4_LowestBlockWins ==
  [][Ran("allocate") =>
       /\ (out'.status = "ok" /\ ~out'.existing) =>
            \E s \in Ports :
              /\ out'.ports = Block(s, out'.count)
              /\ FreeBlockAt(s, out'.count)
              /\ \A t \in PORT_RANGE_START .. (s - 1) :
                   ~FreeBlockAt(t, out'.count)
       /\ (out'.count = 5 /\ DOMAIN Reconciled = {} /\ busy = {}) =>
            /\ out'.status = "ok"
            /\ ~out'.existing
            /\ out'.ports = <<50000, 50001, 50002, 50003, 50004>>]_vars

C4_Witness ==
  /\ out.op = "allocate"
  /\ out.status = "ok"
  /\ ~out.existing
  /\ out.count = 3
  /\ out.ports[1] > PORT_RANGE_START + 1
  /\ busy # {}
  /\ Cardinality(DOMAIN Registry) > 1

ABlock == <<50000, 50001, 50002>>
BBlock == <<50003, 50004, 50005>>

\* C5 as claimed: whenever the registry holds a -> [50000, 50001, 50002] and
\* allocate(3, b) runs for another key b, b's block has none of these ports,
\* and it is [50003, 50004, 50005] when those are free and unreserved.
C5_Original ==
  [][(/\ Ran("allocate")
      /\ out'.count = 3
      /\ out'.key # "a"
      /\ "a" \in DOMAIN Registry
      /\ Registry["a"] = ABlock)
       => /\ PortSet(out'.ports) \cap PortSet(ABlock) = {}
          /\ (PortSet(BBlock) \cap (AllocatedPorts(Registry) \cup busy) = {})
               => out'.ports = BBlock]_vars

\* C5 amended: the same, provided a's state.json exists at
\* WORKTREES_DIR/a and b has no live entry of its own when allocate(3, b)
\* is invoked.
C5_BlockSkipping ==
  [][(/\ Ran("allocate")
      /\ out'.count = 3
      /\ out'.key # "a"
      /\ "a" \in DOMAIN Registry
      /\ Registry["a"] = ABlock
      /\ LiveForAllocate("a")
      /\ out'.key \notin DOMAIN Reconciled)
       => /\ PortSet(out'.ports) \cap PortSet(ABlock) = {}
          /\ (PortSet(BBlock) \cap (Reserved \cup busy) = {})
               => (out'.status = "ok" /\ out'.ports = BBlock)]_vars

C5_Witness ==
  /\ out.op = "allocate"
  /\ out.key = "b"
  /\ out.count = 3
  /\ ~out.existing
  /\ out.ports = BBlock
  /\ "a" \in DOMAIN Registry
  /\ Registry["a"] = ABlock

\* C6: allocate fails with the capacity error only when no block of count
\* ports inside [PORT_RANGE_START, PORT_RANGE_END) is unreserved and free.
C6_CapacityOnlyWhenFull ==
  [][(Ran("allocate") /\ out'.status = "capacity")
       => ~\E s \in PORT_RANGE_START .. (PORT_RANGE_END - out'.count) :
             FreeBlockAt(s, out'.count)]_vars

\* C7: the entry allocate(count, key) creates has exactly count ports,
\* consecutive and ascending, all inside the range.
C7_EntryShape ==
  [][(Ran("allocate") /\ out'.status = "ok" /\ ~out'.existing)
       => /\ out'.key \in DOMAIN Registry'
          /\ Registry'[out'.key] = out'.ports
          /\ Len(out'.ports) = out'.count
          /\ \A i \in 1 .. Len(out'.ports) :
               /\ out'.ports[i] = out'.ports[1] + i - 1
               /\ out'.ports[i] \in Ports]_vars

\* No state record is left for k: no state.json in its own directory and no
\* readable record anywhere that stores k as its allocation key.
Gone(k) ==
  /\ ~StateFileExists(fs, k)
  /\ \A d \in Dirs : fs[d] # Rec(k)

\* C8: an allocate or list invocation removes from the persisted registry
\* every key whose state record is gone (unless that allocate grants the key
\* a fresh block), and the ports those keys held are reserved afterwards
\* only if this very invocation granted them anew.
C8_StaleReclaimed ==
  [][(Ran("allocate") \/ Ran("list")) =>
       \A k \in DOMAIN Registry :
         Gone(k) =>
           /\ \/ k \notin DOMAIN Registry'
              \/ (Ran("allocate") /\ out'.key = k /\ ~out'.existing
                    /\ out'.status = "ok")
           /\ k \in out'.cleaned
           /\ PortSet(Registry[k]) \cap AllocatedPorts(Registry')
                \subseteq PortSet(out'.ports)]_vars

C8_Witness ==
  /\ out.op = "allocate"
  /\ out.cleaned # {}
  /\ out.key \notin out.cleaned
  /\ out.status = "ok"
  /\ ~out.existing
  /\ out.ports = <<PORT_RANGE_START>>
  /\ DOMAIN Registry = {out.key}

\* Some resolution strategy of the reconciler finds a directory with a
\* state record for k: the project/name directory, the directory named by
\* the key, or a state record that stores k as its allocation key.
Resolves(k) ==
  \/ k \in SlashKeys /\ StateFileExists(fs, k)
  \/ StateFileExists(fs, k)
  \/ \E d \in Dirs : fs[d] = Rec(k)

\* C9: a reconcile run (inside allocate, inside list) removes a key only if
\* none of the three strategies resolves it.
C9_LiveNeverRemoved ==
  [][(Ran("allocate") \/ Ran("list")) =>
       \A k \in out'.cleaned : ~Resolves(k)]_vars

\* C10: deallocate of a key absent from the registry reports not-found,
\* exits 0, saves nothing and leaves the registry file as it was; so does a
\* second deallocate right after a successful one.
C10_DeallocateUnknown ==
  [][Ran("deallocate") =>
       /\ out'.key \notin DOMAIN Registry =>
            /\ out'.status = "notfound"
            /\ out'.exit = 0
            /\ out'.saves = 0
            /\ file' = file
       /\ (out.op = "deallocate" /\ out.status = "ok" /\ out'.key = out.key)
            => (out'.status = "notfound" /\ file' = file)]_vars

C10_Witness ==
  /\ out.op = "deallocate"
  /\ out.status = "notfound"
  /\ out.saves = 0
  /\ DOMAIN Registry # {}

\* C11: deallocate of a key present in the registry returns the port list
\* stored for it, removes that key and no other, and saves the result once:
\* every other entry, stale or not, keeps its key and its ports.
C11_DeallocateFrame ==
  [][(Ran("deallocate") /\ out'.key \in DOMAIN Registry) =>
       /\ out'.status = "ok"
       /\ out'.exit = 0
       /\ out'.ports = Registry[out'.key]
       /\ out'.saves = 1
       /\ file'.exists
       /\ Loadable(file')
       /\ DOMAIN Registry' = (DOMAIN Registry) \ {out'.key}
       /\ \A k \in DOMAIN Registry' : Registry'[k] = Registry[k]]_vars

C11_Witness ==
  /\ out.op = "deallocate"
  /\ out.status = "ok"
  /\ out.ports # <<>>
  /\ \E k \in DOMAIN Registry : ~StateFileExists(fs, k)
  /\ \E k \in DOMAIN Registry : StateFileExists(fs, k)

\* C12: when allocate fails with the capacity error the requested key has no
\* entry, and the persisted registry is the registry before the call less
\* the names allocate's reconciler found stale.
C12_CapacityWritesNothing ==
  [][(Ran("allocate") /\ out'.status = "capacity") =>
       /\ out'.exit = 1
       /\ out'.ports = <<>>
       /\ Loadable(file')
       /\ out'.key \notin DOMAIN Registry'
       /\ Registry' = Reconciled
       /\ out'.saves = (IF DOMAIN Reconciled = DOMAIN Registry THEN 0 ELSE 1)]_vars

C12_Witness ==
  /\ out.op = "allocate"
  /\ out.status = "capacity"
  /\ out.cleaned # {}
  /\ DOMAIN Registry # {}

\* C13: while one invocation is inside save (the file opened for writing,
\* the text not yet written) the file another invocation is about to load
\* holds a complete registry.
C13_AtomicSave ==
  \A p, q \in Procs :
    (p # q /\ inv[p].pc = "write" /\ inv[q].pc = "load") => Loadable(file)

\* C15: two allocate invocations for the same key that both return
\* successfully return the same block (no deallocate is ever invoked in
\* SpecConcLive, and no key is ever stale).
C15_SameKeySameBlock ==
  \A p, q \in Procs :
    (p # q /\ Granted(p) /\ Granted(q) /\ inv[p].key = inv[q].key)
      => inv[p].ports = inv[q].ports

\* C14: load after save(r) returns r, load of a missing file returns the
\* empty dict, and saving what load returns leaves the stored registry (and,
\* when it exists, the file) as it was.
C14_RoundTrip ==
  [][/\ out'.op = "load" =>
          inv'[2].allocations =
            (IF file.exists THEN inv[1].allocations ELSE EmptyDict)
     /\ out'.op = "resave" =>
          /\ Registry' = Registry
          /\ file.exists => file' = file]_vars

C14_Witness ==
  /\ out.op = "load"
  /\ file.exists
  /\ DOMAIN inv[2].allocations = ListKeys
  /\ \E k \in ListKeys : inv[2].allocations[k] = <<>>
  /\ \E k \in ListKeys : Len(inv[2].allocations[k]) = MaxList

Succeeded(p) == inv[p].pc = "done" /\ inv[p].status \in {"ok", "notfound"}

\* The persisted registry shows what invocation p did.
Reflected(p) ==
  /\ Loadable(file)
  /\ inv[p].op = "allocate" =>
       /\ inv[p].key \in DOMAIN Registry
       /\ Registry[inv[p].key] = inv[p].ports
  /\ inv[p].op = "deallocate" => inv[p].key \notin DOMAIN Registry

\* C16: when two invocations on distinct keys (allocate and deallocate, two
\* allocates, an allocate and a reconcile) ran concurrently and both
\* completed, the persisted registry reflects both.
C16_NoLostUpdate ==
  \A p, q \in Procs :
    (/\ p # q
     /\ Succeeded(p)
     /\ Succeeded(q)
     /\ Concurrent(p, q)
     /\ inv[p].key # inv[q].key
     /\ "allocate" \in {inv[p].op, inv[q].op})
      => Reflected(p) /\ Reflected(q)

\* C17: on every registry and every state of the worktrees directory the
\* reconciler of allocate and the reconciler of list remove the same keys.
C17_ReconcilersAgree ==
  [][/\ Ran("allocate") => out'.cleaned = ListStaleKeys(Registry, fs)
     /\ Ran("list") => out'.cleaned = StaleNames(Registry, fs)]_vars

\* C18: a reconcile run (inside allocate, inside list) removes exactly the
\* keys that no strategy resolves, leaves every other entry with its ports
\* (but for the entry the allocate adds), and writes the file if and only if
\* it removed a key.
C18_ReconcileFrame ==
  [][(Ran("allocate") \/ Ran("list")) =>
       LET granted == Ran("allocate") /\ out'.status = "ok" /\ ~out'.existing
           writes  == out'.saves - (IF granted THEN 1 ELSE 0)
       IN /\ out'.cleaned = {k \in DOMAIN Registry : ~Resolves(k)}
          /\ \A k \in (DOMAIN Registry) \ out'.cleaned :
               (granted /\ k = out'.key) \/
                 (k \in DOMAIN Registry' /\ Registry'[k] = Registry[k])
          /\ writes = (IF out'.cleaned = {} THEN 0 ELSE 1)
          /\ (out'.cleaned = {} /\ ~granted) => file' = file]_vars

\* The worktrees directory with every corrupt state.json taken away.
Scrub(f) == [d \in Dirs |-> IF f[d] = Corrupt THEN NoRec ELSE f[d]]

\* C19: a reconcile run classifies every key as it would if the corrupt
\* state records did not exist, and runs to its end.
C19_CorruptIsAbsent ==
  [][/\ Ran("allocate") => out'.cleaned = StaleNames(Registry, Scrub(fs))
     /\ Ran("list") => out'.cleaned = ListStaleKeys(Registry, Scrub(fs))]_vars

====
